---- MODULE Spec2Model ----
(***************************************************************************)
(* Earnings-Manipulator dashboards (src/app.py and src/main.py).           *)
(*                                                                         *)
(* Both files are Streamlit scripts: every user interaction (upload, a     *)
(* slider move, a button click, a checkbox toggle) re-executes the whole   *)
(* script from the top.  What survives from one execution to the next is   *)
(* the widget state and, in app.py, st.session_state['best_model'].        *)
(* One action of this model is one user interaction together with the      *)
(* complete script execution it triggers.                                  *)
(*                                                                         *)
(* Library calls are modelled by what they return for the data at hand:    *)
(*   pandas  Series.map(dict)  -> NaN for every value that is no key,      *)
(*   pandas  df[list]          -> KeyError naming the absent labels,       *)
(*   sklearn train_test_split  -> deterministic stratified partition,      *)
(*   sklearn StandardScaler    -> column sums / sums of squares,           *)
(*   sklearn roc_auc_score     -> undefined on single-class y_true,        *)
(*   sklearn GridSearchCV      -> one winning combination of the grid,     *)
(*   streamlit                 -> an uncaught exception ends the run and   *)
(*                                is shown as an exception box.            *)
(***************************************************************************)
EXTENDS Integers, Sequences, FiniteSets, TLC

\* Longest session explored: number of script executions after the page loads.
MaxRuns == 4

\* Stand-in for the float NaN inside a label vector (labels proper are 0 and 1).
NaN == 0 - 1

\* ---------------------------------------------------------------------------
\* Fixed names of the program
\* ---------------------------------------------------------------------------

feature_cols == <<"DSRI", "GMI", "AQI", "SGI", "DEPI", "SGAI", "ACCR", "LEVI">>

target_col == "Manipulator"

Range(s) == {s[i] : i \in DOMAIN s}

FeatureSet == Range(feature_cols)

RequiredCols == FeatureSet \cup {target_col}

\* The dictionary handed to Series.map.
LabelDict == [No |-> 0, Yes |-> 1]

\* Slider positions explored, in percent (range 0.1 .. 0.5, default 0.25).
TestSizes == {20, 25, 50}

DefaultTestSize == 25

\* param_grid of the two files; learning_rate in hundredths.
param_grid(v) ==
    IF v = "app"
    THEN [n_estimators |-> {100, 200}, learning_rate |-> {5, 10}, max_depth |-> {3, 4}]
    ELSE [n_estimators |-> {100, 200}, learning_rate |-> {1, 10}, max_depth |-> {3, 4}]

\* The candidate combinations GridSearchCV enumerates for a param_grid.
ParameterGrid(pg) ==
    {[n_estimators |-> n, learning_rate |-> l, max_depth |-> d] :
        n \in pg.n_estimators, l \in pg.learning_rate, d \in pg.max_depth}

CvFolds == 3

\* ---------------------------------------------------------------------------
\* Uploaded spreadsheets
\* ---------------------------------------------------------------------------

\* One spreadsheet row: the eight ratios and the Manipulator cell.
Row(a, b, m) ==
    [x |-> [c \in FeatureSet |-> IF c \in {"DSRI", "AQI", "DEPI", "ACCR"} THEN a ELSE b],
     m |-> m]

\* Manipulator cells of the nine rows: seven of one class, two of the other.
Cells(dtype) ==
    IF dtype = "object"
    THEN <<"No", "No", "No", "Yes", "No", "No", "No", "Yes", "No">>
    ELSE <<0, 0, 0, 1, 0, 0, 0, 1, 0>>

BaseRows(dtype) ==
    LET m == Cells(dtype) IN
    <<Row(1, 2, m[1]), Row(3, 1, m[2]), Row(5, 4, m[3]), Row(2, 6, m[4]), Row(4, 3, m[5]),
      Row(6, 5, m[6]), Row(2, 2, m[7]), Row(7, 1, m[8]), Row(3, 6, m[9])>>

\* Same spreadsheet with other figures in the last two rows of the majority class.
AltRows(dtype) ==
    LET b == BaseRows(dtype) IN
    [b EXCEPT ![7] = Row(8, 9, b[7].m), ![9] = Row(9, 7, b[9].m)]

File(name, readable, missing, dtype, rows) ==
    [name |-> name, readable |-> readable, cols |-> RequiredCols \ missing,
     dtype |-> dtype, rows |-> rows]

Files ==
    {File("labels_text", TRUE, {}, "object", BaseRows("object")),
     File("labels_text_alt", TRUE, {}, "object", AltRows("object")),
     File("labels_01", TRUE, {}, "int64", BaseRows("int64")),
     File("corrupt", FALSE, {}, "object", <<>>),
     File("no_dsri", TRUE, {"DSRI"}, "object", BaseRows("object")),
     File("no_target", TRUE, {target_col}, "object", BaseRows("object")),
     File("no_gmi_levi_target", TRUE, {"GMI", "LEVI", target_col}, "object",
          BaseRows("object"))}

FileNames == {f.name : f \in Files}

NoFile == "None"

FileOf(name) == CHOOSE f \in Files : f.name = name

\* ---------------------------------------------------------------------------
\* Library calls
\* ---------------------------------------------------------------------------

\* The elements of sequence s at the positions in I, in their order.
Pick(s, I) ==
    LET F[k \in 0..Len(s)] ==
            IF k = 0 THEN <<>>
            ELSE IF k \in I THEN Append(F[k - 1], s[k]) ELSE F[k - 1]
    IN F[Len(s)]

\* df[target_col].map({'No': 0, 'Yes': 1}): a cell that is no key of the
\* dictionary (every cell of a numeric column) becomes NaN.
MapLabels(dtype, cells) ==
    [i \in DOMAIN cells |->
        IF dtype = "object" /\ cells[i] \in DOMAIN LabelDict
        THEN LabelDict[cells[i]]
        ELSE NaN]

\* Rows of class c, and how many there are.
ClassRows(y, c) == {i \in DOMAIN y : y[i] = c}

\* Stratified allocation of n_draws rows over the classes, proportional to the
\* class counts, the odd row going to the class with the largest remainder.
ApproximateMode(counts, n_draws) ==
    LET n == counts[0] + counts[1]
        lo == [c \in {0, 1} |-> (counts[c] * n_draws) \div n]
        rem == [c \in {0, 1} |-> (counts[c] * n_draws) % n]
        need == n_draws - (lo[0] + lo[1])
        extra == IF rem[1] > rem[0] THEN 1 ELSE 0
    IN [c \in {0, 1} |-> IF need > 0 /\ c = extra THEN lo[c] + 1 ELSE lo[c]]

\* The k first elements of a set of row numbers.
FirstK(S, k) == {i \in S : Cardinality({j \in S : j < i}) < k}

\* train_test_split(X, y, test_size, random_state=42, stratify=y).  ok is FALSE
\* where sklearn raises ValueError: NaN labels, a class with a single member,
\* or a partition smaller than the number of classes.
train_test_split(X, y, ts) ==
    LET n == Len(y)
        counts == [c \in {0, 1} |-> Cardinality(ClassRows(y, c))]
        n_classes == Cardinality({c \in {0, 1} : counts[c] > 0})
        n_test == (ts * n + 99) \div 100
        n_train == n - n_test
        bad == \/ \E i \in DOMAIN y : y[i] = NaN
               \/ \E c \in {0, 1} : counts[c] = 1
               \/ n_train < n_classes
               \/ n_test < n_classes
        alloc == ApproximateMode(counts, n_train)
        tr == FirstK(ClassRows(y, 0), alloc[0]) \cup FirstK(ClassRows(y, 1), alloc[1])
        te == DOMAIN y \ tr
    IN IF bad
       THEN [ok |-> FALSE, X_train |-> <<>>, X_test |-> <<>>, y_train |-> <<>>,
             y_test |-> <<>>]
       ELSE [ok |-> TRUE, X_train |-> Pick(X, tr), X_test |-> Pick(X, te),
             y_train |-> Pick(y, tr), y_test |-> Pick(y, te)]

\* Column sum of f over the rows of X.
ColSum(X, c, sq) ==
    LET F[k \in 0..Len(X)] ==
            IF k = 0 THEN 0
            ELSE F[k - 1] + (IF sq THEN X[k][c] * X[k][c] ELSE X[k][c])
    IN F[Len(X)]

\* StandardScaler().fit(X): per column the mean is sum/n and the variance
\* sumsq/n - (sum/n)^2; the fitted state is kept as (n, sum, sumsq).
ScalerFit(X) ==
    [n |-> Len(X),
     sum |-> [c \in FeatureSet |-> ColSum(X, c, FALSE)],
     sumsq |-> [c \in FeatureSet |-> ColSum(X, c, TRUE)]]

\* scaler.transform(X): (x - mean)/sqrt(var), kept as the pair
\* <<n*x - sum, n*sumsq - sum^2>> (numerator and n^2 * variance).
ScalerTransform(sc, X) ==
    [i \in DOMAIN X |->
        [c \in FeatureSet |->
            <<sc.n * X[i][c] - sc.sum[c], sc.n * sc.sumsq[c] - sc.sum[c] * sc.sum[c]>>]]

\* roc_auc_score(y_true, y_prob): a score when both classes are present;
\* otherwise undefined, where the installed sklearn either raises ValueError
\* ("raise") or warns and returns NaN ("nan").
roc_auc_score(y_true, undefined) ==
    IF Cardinality(Range(y_true)) > 1 THEN "score" ELSE undefined

\* ---------------------------------------------------------------------------
\* One script execution, stage by stage
\* ---------------------------------------------------------------------------
\* A script execution is threaded through a record s:
\*   halt      the execution has ended (st.stop, uncaught exception, or a
\*             branch that leaves nothing more to do)
\*   out       what was rendered: elements and widgets
\*   stages    the stages that executed, in order
\*   named     the column names an error message carries
\*   cause     the exception text an error message carries ("" if none)
\*   y         the label vector handed to train_test_split
\*   part      <<partitions>> once the split succeeded
\*   scaler    <<fitted scaler state>>, n_fit the number of fits
\*   scaled    <<[train, test]>> scaled matrices
\*   results   the bench's metric records
\*   tuned     <<outcome of the grid search>>
\*   slot      st.session_state['best_model'] (<<>> when the key is absent)
\*   explained <<[model, X]>> when attribution values were computed

Begin(slot) ==
    [halt |-> FALSE, out |-> {}, stages |-> <<>>, named |-> {}, cause |-> "",
     y |-> <<>>, part |-> <<>>, scaler |-> <<>>, n_fit |-> 0, scaled |-> <<>>,
     results |-> <<>>, tuned |-> <<>>, slot |-> slot, explained |-> <<>>]

\* An exception nothing catches: streamlit shows it and ends the execution.
Uncaught(s, text) ==
    [s EXCEPT !.halt = TRUE, !.out = @ \cup {"exception"}, !.cause = text]

\* Variant of LoadStage in which the preview is rendered before the result of
\* load_data is looked at.
LoadStage_PreviewFirst(v, s, fname) ==
    IF fname = NoFile
    THEN [s EXCEPT !.halt = TRUE, !.out = @ \cup {"info"}]
    ELSE LET f == FileOf(fname)
             s1 == [s EXCEPT !.stages = Append(@, "load"), !.out = @ \cup {"preview"}]
         IN IF ~f.readable
            THEN IF v = "app"
                 THEN Uncaught(s1, "read_excel")
                 ELSE [s1 EXCEPT !.halt = TRUE, !.out = @ \cup {"load_error"},
                                 !.cause = "read_excel"]
            ELSE [s1 EXCEPT !.stages = Append(@, "preview")]

\* Loading and preview.
LoadStage(v, s, fname) ==
    IF fname = NoFile
    THEN [s EXCEPT !.halt = TRUE, !.out = @ \cup {"info"}]
    ELSE LET f == FileOf(fname)
             s1 == [s EXCEPT !.stages = Append(@, "load")]
         IN IF ~f.readable
            THEN IF v = "app"
                 THEN Uncaught(s1, "read_excel")
                 ELSE [s1 EXCEPT !.halt = TRUE, !.out = @ \cup {"load_error"},
                                 !.cause = "read_excel"]
            ELSE [s1 EXCEPT !.out = @ \cup {"preview"}, !.stages = Append(@, "preview")]

\* The label vector: app.py maps unconditionally, main.py only an object column.
TargetLabels(v, f) ==
    LET cells == [i \in DOMAIN f.rows |-> f.rows[i].m] IN
    IF v = "app" THEN MapLabels(f.dtype, cells)
    ELSE IF f.dtype = "object" THEN MapLabels(f.dtype, cells)
    ELSE cells

\* The columns the error message names when required columns are absent.
\* app.py: the KeyError of the first failing lookup, df[feature_cols] before
\* df['Manipulator'].  main.py: the fixed list of all required columns.
NamedColumns(v, f) ==
    IF v = "app"
    THEN IF FeatureSet \ f.cols # {} THEN FeatureSet \ f.cols ELSE {target_col}
    ELSE FeatureSet \cup {target_col}

\* Column check and target mapping.
ValidateStage(v, s, fname) ==
    LET f == FileOf(fname)
        s1 == [s EXCEPT !.stages = Append(@, "validate")]
    IN IF s.halt THEN s ELSE IF RequiredCols \subseteq f.cols
       THEN [s1 EXCEPT !.y = TargetLabels(v, f),
                       !.out = IF v = "app" THEN @ \cup {"extracted"} ELSE @]
       ELSE [s1 EXCEPT !.halt = TRUE, !.out = @ \cup {"schema_error"},
                       !.named = NamedColumns(v, f)]

\* Test-size slider and train_test_split.
SplitStage(v, s, fname, ts) ==
    LET f == FileOf(fname)
        X == [i \in DOMAIN f.rows |-> f.rows[i].x]
        p == train_test_split(X, s.y, ts)
        s1 == [s EXCEPT !.out = @ \cup {"slider"}, !.stages = Append(@, "split")]
    IN IF s.halt THEN s ELSE IF p.ok THEN [s1 EXCEPT !.part = <<p>>]
       ELSE Uncaught(s1, "train_test_split")

\* Variant of ScaleStage in which the scaler is fitted on all rows.
ScaleStage_FitOnAllRows(v, s) ==
    LET p == s.part[1]
        fitted == ScalerFit(p.X_train \o p.X_test)
    IN IF s.halt THEN s ELSE [s EXCEPT !.stages = Append(@, "scale"),
                 !.scaler = <<fitted>>,
                 !.n_fit = @ + 1,
                 !.scaled = <<[train |-> ScalerTransform(fitted, p.X_train),
                               test |-> ScalerTransform(fitted, p.X_test)]>>,
                 !.out = IF v = "main" THEN @ \cup {"processed"} ELSE @]

\* scaler.fit_transform(X_train) then scaler.transform(X_test).
ScaleStage(v, s) ==
    LET p == s.part[1]
        fitted == ScalerFit(p.X_train)
    IN IF s.halt THEN s ELSE [s EXCEPT !.stages = Append(@, "scale"),
                 !.scaler = <<fitted>>,
                 !.n_fit = @ + 1,
                 !.scaled = <<[train |-> ScalerTransform(fitted, p.X_train),
                               test |-> ScalerTransform(fitted, p.X_test)]>>,
                 !.out = IF v = "main" THEN @ \cup {"processed"} ELSE @]

\* The five families of the bench, in training order.
Roster == <<"SVM", "KNN", "Naive Bayes", "AdaBoost", "XGBoost">>

\* Which training matrix a family is fitted on.
FitMatrix(v, name) == IF name \in {"SVM", "KNN"} THEN "scaled" ELSE "raw"

\* Which test matrix a family is evaluated on.
EvalMatrix(v, name) == IF name \in {"SVM", "KNN"} THEN "scaled" ELSE "raw"

\* Area under ROC of a metric record.  evaluate (app.py) calls roc_auc_score
\* whatever the labels; evaluate_model (main.py) returns 0 for a single class.
RocAuc(v, y_test, undefined) ==
    IF v = "app" THEN roc_auc_score(y_test, undefined)
    ELSE IF Cardinality(Range(y_test)) > 1 THEN roc_auc_score(y_test, undefined)
    ELSE "0"

\* One metric record; ok is FALSE when computing it raised.
evaluate(v, name, fit_on, eval_on, y_test, undefined) ==
    LET auc == RocAuc(v, y_test, undefined) IN
    [ok |-> auc # "raise",
     rec |-> [Model |-> name, fit_on |-> fit_on, fit_labels |-> "y_train",
              eval_on |-> eval_on, y_true |-> y_test,
              Accuracy |-> "accuracy_score", Precision |-> "precision_score",
              Recall |-> "recall_score", F1 |-> "f1_score", ROC_AUC |-> auc]]

\* Variant of BenchStage in which the bench's XGBoost model is stored in the
\* session's best-model slot.
BenchStage_PromotesModel(v, s, train, undefined) ==
    LET p == s.part[1]
        ev == [k \in DOMAIN Roster |->
                 evaluate(v, Roster[k], FitMatrix(v, Roster[k]), EvalMatrix(v, Roster[k]),
                          p.y_test, undefined)]
        failed == {k \in DOMAIN Roster : ~ev[k].ok}
        done == {k \in DOMAIN Roster : \A j \in failed : k < j}
        recs == Pick([k \in DOMAIN Roster |-> ev[k].rec], done)
        xgb == [params |-> [n_estimators |-> 300, learning_rate |-> 5, max_depth |-> 4],
                X_fit |-> p.X_train, y_fit |-> p.y_train, ds |-> "bench", ts |-> 0]
        s1 == [s EXCEPT !.out = @ \cup {"btn_train"}]
        s2 == [s1 EXCEPT !.stages = Append(@, "bench"), !.results = recs]
    IN IF s.halt THEN s ELSE IF ~train THEN s1
       ELSE IF failed # {} THEN Uncaught(s2, "roc_auc_score")
       ELSE [s2 EXCEPT !.slot = <<xgb>>,
                       !.out = @ \cup {"results_table",
                                       IF v = "app" THEN "bar_chart" ELSE "best_info"}]

\* Model bench: the train button and, when it was clicked, the five fits.
BenchStage(v, s, train, undefined) ==
    LET p == s.part[1]
        ev == [k \in DOMAIN Roster |->
                 evaluate(v, Roster[k], FitMatrix(v, Roster[k]), EvalMatrix(v, Roster[k]),
                          p.y_test, undefined)]
        failed == {k \in DOMAIN Roster : ~ev[k].ok}
        done == {k \in DOMAIN Roster : \A j \in failed : k < j}
        recs == Pick([k \in DOMAIN Roster |-> ev[k].rec], done)
        s1 == [s EXCEPT !.out = @ \cup {"btn_train"}]
        s2 == [s1 EXCEPT !.stages = Append(@, "bench"), !.results = recs]
    IN IF s.halt THEN s ELSE IF ~train THEN s1
       ELSE IF failed # {} THEN Uncaught(s2, "roc_auc_score")
       ELSE [s2 EXCEPT !.out = @ \cup {"results_table",
                                       IF v = "app" THEN "bar_chart" ELSE "best_info"}]

\* Grid search over the XGBoost grid.  win is the combination GridSearchCV
\* ranks first.  app.py evaluates the refit model and stores it in the
\* session; main.py does neither.
TunerStage(v, s, fname, ts, grid, win, undefined) ==
    LET p == s.part[1]
        best_xgb == [params |-> win, X_fit |-> p.X_train, y_fit |-> p.y_train,
                     ds |-> fname, ts |-> ts]
        m == evaluate(v, "XGBoost Tuned", "raw", "raw", p.y_test, undefined)
        search == [candidates |-> ParameterGrid(param_grid(v)), cv |-> CvFolds,
                   scoring |-> "roc_auc", best_params |-> win, model |-> best_xgb,
                   metrics |-> <<>>]
        s1 == [s EXCEPT !.out = @ \cup {IF v = "app" THEN "btn_grid" ELSE "chk_grid"}]
        s2 == [s1 EXCEPT !.stages = Append(@, "tuner"), !.tuned = <<search>>,
                         !.out = @ \cup {"best_params"}]
    IN IF s.halt THEN s ELSE IF ~grid THEN s1
       ELSE IF v = "main" THEN s2
       ELSE IF ~m.ok THEN Uncaught(s2, "roc_auc_score")
       ELSE [s2 EXCEPT !.tuned = <<[search EXCEPT !.metrics = <<m.rec>>]>>,
                       !.out = @ \cup {"tuned_table"},
                       !.slot = <<best_xgb>>]

\* Attribution charts.  app.py: a section of its own, reading the session
\* slot.  main.py: the tail of the grid-search block, on the model just fitted.
ExplainStage(v, s, grid, shap) ==
    LET p == s.part[1]
        charts == {"shap_bar", "shap_beeswarm"}
    IN IF s.halt THEN s ELSE IF v = "app"
       THEN IF s.slot # <<>>
            THEN IF shap
                 THEN [s EXCEPT !.out = @ \cup {"chk_shap"} \cup charts,
                                !.stages = Append(@, "explainer"),
                                !.explained = <<[model |-> s.slot[1], X |-> p.X_train]>>]
                 ELSE [s EXCEPT !.out = @ \cup {"chk_shap"}]
            ELSE [s EXCEPT !.out = @ \cup {"warning"}]
       ELSE IF grid
            THEN [s EXCEPT !.out = @ \cup charts,
                           !.stages = Append(@, "explainer"),
                           !.explained = <<[model |-> s.tuned[1].model, X |-> p.X_train]>>]
            ELSE s

\* The whole script, top to bottom: each stage works on the record the stage
\* before it left, and a stage that finds the execution ended passes it on.
Script(v, fname, ts, train, grid, shap, slot, win, undefined) ==
    LET loaded == {LoadStage(v, s, fname) : s \in {Begin(slot)}}
        validated == {ValidateStage(v, s, fname) : s \in loaded}
        split == {SplitStage(v, s, fname, ts) : s \in validated}
        scaled_ == {ScaleStage(v, s) : s \in split}
        benched == {BenchStage(v, s, train, undefined) : s \in scaled_}
        tuned_ == {TunerStage(v, s, fname, ts, grid, win, undefined) : s \in benched}
        finished == {ExplainStage(v, s, grid, shap) : s \in tuned_}
    IN CHOOSE s \in finished : TRUE

\* ---------------------------------------------------------------------------
\* The session
\* ---------------------------------------------------------------------------

VARIABLES
    variant,          \* which dashboard is served: "app" or "main"
    undefined_auc,    \* what the installed roc_auc_score does on one class
    uploaded_file,    \* the file uploader's value (a file name or NoFile)
    test_size,        \* the slider's value
    grid_checkbox,    \* main.py: "Run Grid Search on XGBoost"
    shap_checkbox,    \* app.py: "Show SHAP Summary Plot"
    best_model,       \* st.session_state['best_model'], <<>> when absent
    out, stages, named, cause, y, part, scaler, n_fit, scaled, results, tuned,
    explained,        \* the last script execution (fields of its record)
    tuner_completed,  \* history: a grid search ran to its end in this session
    prev_scale,       \* history: the scale stage of the latest earlier execution
    runs              \* history: script executions so far

widgets == <<uploaded_file, test_size, grid_checkbox, shap_checkbox>>

last == <<out, stages, named, cause, y, part, scaler, n_fit, scaled, results, tuned,
          explained>>

vars == <<variant, undefined_auc, widgets, best_model, last, tuner_completed,
          prev_scale, runs>>

\* The grid search of an execution ran to its end.
TunerCompleted(v, s) ==
    /\ s.tuned # <<>>
    /\ v = "app" => s.tuned[1].metrics # <<>>

Init ==
    /\ variant \in {"app", "main"}
    /\ undefined_auc \in {"raise", "nan"}
    /\ uploaded_file = NoFile
    /\ test_size = DefaultTestSize
    /\ grid_checkbox = FALSE
    /\ shap_checkbox = FALSE
    /\ best_model = <<>>
    /\ out = {"info"}
    /\ stages = <<>>
    /\ named = {}
    /\ cause = ""
    /\ y = <<>>
    /\ part = <<>>
    /\ scaler = <<>>
    /\ n_fit = 0
    /\ scaled = <<>>
    /\ results = <<>>
    /\ tuned = <<>>
    /\ explained = <<>>
    /\ tuner_completed = FALSE
    /\ prev_scale = <<>>
    /\ runs = 0

\* The combinations a grid search may rank first: any one of the grid (the
\* cross-validation scores are the library's).  Without a search request the
\* choice is never read.
Winners(v, grid) ==
    IF grid THEN ParameterGrid(param_grid(v))
    ELSE {[n_estimators |-> 100, learning_rate |-> 10, max_depth |-> 3]}

\* The script re-executes with the given widget values; a widget that is not
\* rendered in the execution loses its value.
Rerun(fname, ts, train, grid, shap) ==
    /\ runs < MaxRuns
    /\ \E win \in Winners(variant, grid) :
       \E s \in {Script(variant, fname, ts, train, grid, shap, best_model, win,
                        undefined_auc)} :
           /\ uploaded_file' = fname
           /\ test_size' = IF "slider" \in s.out THEN ts ELSE DefaultTestSize
           /\ grid_checkbox' = ("chk_grid" \in s.out /\ grid)
           /\ shap_checkbox' = ("chk_shap" \in s.out /\ shap)
           /\ best_model' = s.slot
           /\ out' = s.out
           /\ stages' = s.stages
           /\ named' = s.named
           /\ cause' = s.cause
           /\ y' = s.y
           /\ part' = s.part
           /\ scaler' = s.scaler
           /\ n_fit' = s.n_fit
           /\ scaled' = s.scaled
           /\ results' = s.results
           /\ tuned' = s.tuned
           /\ explained' = s.explained
           /\ tuner_completed' = (tuner_completed \/ TunerCompleted(variant, s))
    /\ prev_scale' = IF scaler # <<>>
                     THEN <<[X_train |-> part[1].X_train, X_test |-> part[1].X_test,
                             scaler |-> scaler[1], scaled_train |-> scaled[1].train]>>
                     ELSE prev_scale
    /\ runs' = runs + 1
    /\ UNCHANGED <<variant, undefined_auc>>

\* User interactions.  A button is TRUE only in the execution its click
\* triggers; a checkbox and the slider keep their value while they are rendered.
Upload(fname) ==
    /\ fname \in FileNames
    /\ Rerun(fname, test_size, FALSE, grid_checkbox, shap_checkbox)

RemoveFile ==
    /\ uploaded_file # NoFile
    /\ Rerun(NoFile, test_size, FALSE, grid_checkbox, shap_checkbox)

MoveSlider(ts) ==
    /\ "slider" \in out
    /\ ts # test_size
    /\ Rerun(uploaded_file, ts, FALSE, grid_checkbox, shap_checkbox)

ClickTrain ==
    /\ "btn_train" \in out
    /\ Rerun(uploaded_file, test_size, TRUE, grid_checkbox, shap_checkbox)

ClickGridSearch ==
    /\ "btn_grid" \in out
    /\ Rerun(uploaded_file, test_size, FALSE, TRUE, shap_checkbox)

ToggleGridSearch ==
    /\ "chk_grid" \in out
    /\ Rerun(uploaded_file, test_size, FALSE, ~grid_checkbox, shap_checkbox)

ToggleShap ==
    /\ "chk_shap" \in out
    /\ Rerun(uploaded_file, test_size, FALSE, grid_checkbox, ~shap_checkbox)

Next ==
    \/ \E fname \in FileNames : Upload(fname)
    \/ RemoveFile
    \/ \E ts \in TestSizes : MoveSlider(ts)
    \/ ClickTrain
    \/ ClickGridSearch
    \/ ToggleGridSearch
    \/ ToggleShap

Spec == Init /\ [][Next]_vars

\* ---------------------------------------------------------------------------
\* Properties
\* ---------------------------------------------------------------------------

Charts == {"shap_bar", "shap_beeswarm"}

Executed == Range(stages)

SingleClassTest == part # <<>> /\ Cardinality(Range(part[1].y_test)) = 1

\* C1: a table with all nine required columns reaches the split; a table
\* missing a required column halts before splitting, training or tuning, and
\* the error message names exactly the missing columns.
C1_MessageNamesMissingColumns ==
    (uploaded_file # NoFile /\ FileOf(uploaded_file).readable) =>
        LET f == FileOf(uploaded_file) IN
        /\ RequiredCols \subseteq f.cols => "split" \in Executed
        /\ ~(RequiredCols \subseteq f.cols) =>
              /\ "schema_error" \in out
              /\ Executed \cap {"split", "scale", "bench", "tuner", "explainer"} = {}
              /\ named = RequiredCols \ f.cols

\* C2: the label vector handed to the split is 0 for "No" and 1 for "Yes" when
\* the Manipulator column holds text, and equals the column itself, with no
\* missing value, when the column is numeric 0/1.
C2_LabelsNormalized ==
    ("split" \in Executed) =>
        LET f == FileOf(uploaded_file) IN
        /\ Len(y) = Len(f.rows)
        /\ f.dtype = "object" =>
              \A i \in DOMAIN y : y[i] = (IF f.rows[i].m = "No" THEN 0 ELSE 1)
        /\ f.dtype = "int64" =>
              \A i \in DOMAIN y : y[i] # NaN /\ y[i] = f.rows[i].m

C4_ReuploadDiscardsModel ==
    /\ (best_model # <<>> /\ uploaded_file # NoFile) => best_model[1].ds = uploaded_file
    /\ explained # <<>> => explained[1].model.ds = uploaded_file

\* C5: wherever a metric record is computed on a single-class test partition,
\* its area under ROC is exactly 0, the results table is produced and no
\* error is raised or shown.
C5_UndefinedAucIsZero ==
    SingleClassTest =>
        /\ "exception" \notin out
        /\ \A k \in DOMAIN results : results[k].ROC_AUC = "0"
        /\ "bench" \in Executed => (Len(results) = Len(Roster) /\ "results_table" \in out)
        /\ (tuned # <<>> /\ tuned[1].metrics # <<>>) => tuned[1].metrics[1].ROC_AUC = "0"

\* C6: when the spreadsheet cannot be read, the execution ends with a message
\* carrying the cause, no later stage executes and nothing is rendered or
\* computed besides the message; the failed execution leaves the session's
\* best-model slot as it found it.
C6_LoadFailureHalts ==
    /\ []((uploaded_file # NoFile /\ ~FileOf(uploaded_file).readable) =>
            /\ stages = <<"load">>
            /\ out \in {{"load_error"}, {"exception"}}
            /\ cause = "read_excel"
            /\ y = <<>> /\ part = <<>> /\ scaler = <<>> /\ scaled = <<>>
            /\ results = <<>> /\ tuned = <<>> /\ explained = <<>>)
    /\ [][(uploaded_file' # NoFile /\ ~FileOf(uploaded_file').readable)
            => best_model' = best_model]_vars

C6_Witness ==
    /\ uploaded_file = "corrupt"
    /\ cause = "read_excel"
    /\ prev_scale # <<>>

\* C7: every bench run produces exactly five metric records, one per family
\* in roster order; SVM and KNN are fitted and evaluated on the scaled
\* matrices, the other three on the raw ones; every record is computed
\* against the test labels of the run's split.
C7_BenchPolicy ==
    ("bench" \in Executed) =>
        /\ Len(results) = 5
        /\ \A k \in DOMAIN results :
              /\ results[k].Model = Roster[k]
              /\ results[k].fit_on =
                    (IF Roster[k] \in {"SVM", "KNN"} THEN "scaled" ELSE "raw")
              /\ results[k].eval_on = results[k].fit_on
              /\ results[k].y_true = part[1].y_test

\* C8: the scaler is fitted once per execution, on the training features
\* alone; the fitted state transforms both partitions unchanged; and two
\* executions with the same training features but different test features
\* have the same fitted state and the same scaled training features.
C8_TestBlindScaling ==
    (scaler # <<>>) =>
        /\ n_fit = 1
        /\ scaler[1] = ScalerFit(part[1].X_train)
        /\ scaled[1].train = ScalerTransform(scaler[1], part[1].X_train)
        /\ scaled[1].test = ScalerTransform(scaler[1], part[1].X_test)
        /\ (prev_scale # <<>> /\ prev_scale[1].X_train = part[1].X_train) =>
              /\ prev_scale[1].scaler = scaler[1]
              /\ prev_scale[1].scaled_train = scaled[1].train

C8_Witness ==
    /\ scaler # <<>>
    /\ prev_scale # <<>>
    /\ prev_scale[1].X_train = part[1].X_train
    /\ prev_scale[1].X_test # part[1].X_test

\* C9: each grid search covers the grid n_estimators {100,200} x
\* learning_rate {0.05,0.1} x max_depth {3,4}, 8 combinations, 3 folds, scored
\* by area under ROC, reports one winning combination of that grid together
\* with the refit model's metric record, and leaves the winning model in the
\* best-model slot.
C9_TunerOutcome ==
    ("tuner" \in Executed) =>
        /\ tuned # <<>>
        /\ tuned[1].candidates =
              ParameterGrid([n_estimators |-> {100, 200}, learning_rate |-> {5, 10},
                             max_depth |-> {3, 4}])
        /\ Cardinality(tuned[1].candidates) = 8
        /\ tuned[1].cv = 3
        /\ tuned[1].scoring = "roc_auc"
        /\ tuned[1].best_params \in tuned[1].candidates
        /\ "best_params" \in out
        /\ Len(tuned[1].metrics) = 1
        /\ best_model = <<tuned[1].model>>

\* C10: whenever attribution values are computed, the explained model was
\* fitted on the training partition handed to the explainer, from the same
\* file and the same test fraction.
C10_ExplainedModelMatchesPartition ==
    (explained # <<>>) =>
        /\ explained[1].model.X_fit = explained[1].X
        /\ explained[1].model.ds = uploaded_file
        /\ explained[1].model.ts = test_size

====
